---- MODULE Spec2Model ----
(***************************************************************************)
(* A model of joy's release promotion (Promotion.Promote), release listing *)
(* (List), the promotion-graph candidate functions and value hydration.    *)
(*                                                                         *)
(* Three specifications share the module:                                  *)
(*   Spec        one run of Promote or of List, a step per collaborator    *)
(*               call, with the collaborators' answers drawn with \E;      *)
(*   SpecEnvs    getSourceEnvironments / getTargetEnvironments applied to  *)
(*               every bounded environment list;                           *)
(*   SpecHydrate HydrateValues on a heap of Go maps (maps are references). *)
(***************************************************************************)
EXTENDS Integers, Sequences, FiniteSets, TLC

VARIABLES run, pure, hyd

vars == <<run, pure, hyd>>

(***************************************************************************)
(* Generic helpers                                                         *)
(***************************************************************************)
Range(s) == {s[i] : i \in 1..Len(s)}

Count(s, x) == Cardinality({i \in 1..Len(s) : s[i] = x})

RECURSIVE SeqsUpTo(_, _)
SeqsUpTo(S, n) ==
    IF n = 0 THEN {<<>>}
    ELSE LET shorter == SeqsUpTo(S, n - 1)
         IN shorter \cup {Append(q, x) : q \in {t \in shorter : Len(t) = n - 1}, x \in S}

NoErr == ""

(***************************************************************************)
(* Environments (v1alpha1.Environment: Name, Spec.Promotion)               *)
(***************************************************************************)
EnvNames == {"dev", "staging", "prod"}

Env(name, from, auto) ==
    [Name |-> name, FromEnvironments |-> from, AllowAutoMerge |-> auto]

\* A nil *v1alpha1.Environment.
NilEnv == Env("", <<>>, FALSE)

(***************************************************************************)
(* getSourceEnvironments: every name found in any FromEnvironments list    *)
(* goes into envsMap; the input is then filtered, in order, by envsMap.    *)
(***************************************************************************)
getSourceEnvironments(environments) ==
    LET envsMap == UNION {Range(environments[i].FromEnvironments) :
                            i \in 1..Len(environments)}
        InMap(env) == env.Name \in envsMap
        envs == SelectSeq(environments, InMap)
    IN IF Len(envs) = 0
       THEN [envs |-> <<>>, err |-> "no promotable source environments found"]
       ELSE [envs |-> envs, err |-> NoErr]

(***************************************************************************)
(* getTargetEnvironments: for each environment other than the source, one  *)
(* append per entry of its FromEnvironments equal to the source's name.    *)
(***************************************************************************)
RECURSIVE Repeat(_, _)
Repeat(x, n) == IF n = 0 THEN <<>> ELSE <<x>> \o Repeat(x, n - 1)

RECURSIVE targetAppends(_, _)
targetAppends(environments, sourceEnvironment) ==
    IF environments = <<>> THEN <<>>
    ELSE LET env == Head(environments)
             hits == IF env.Name # sourceEnvironment.Name
                     THEN Count(env.FromEnvironments, sourceEnvironment.Name)
                     ELSE 0
         IN Repeat(env, hits) \o targetAppends(Tail(environments), sourceEnvironment)

getTargetEnvironmentsIgnoringFrom(environments, sourceEnvironment) ==
    LET Other(env) == env.Name # sourceEnvironment.Name
        envs == SelectSeq(environments, Other)
    IN IF Len(envs) = 0
       THEN [envs |-> <<>>, err |-> "no target environments found to promote from"]
       ELSE [envs |-> envs, err |-> NoErr]

getTargetEnvironmentsSymmetric(environments, sourceEnvironment) ==
    LET Linked(env) == /\ env.Name # sourceEnvironment.Name
                       /\ \/ sourceEnvironment.Name \in Range(env.FromEnvironments)
                          \/ env.Name \in Range(sourceEnvironment.FromEnvironments)
        envs == SelectSeq(environments, Linked)
    IN IF Len(envs) = 0
       THEN [envs |-> <<>>, err |-> "no target environments found to promote from"]
       ELSE [envs |-> envs, err |-> NoErr]

getTargetEnvironments(environments, sourceEnvironment) ==
    LET envs == targetAppends(environments, sourceEnvironment)
    IN IF Len(envs) = 0
       THEN [envs |-> <<>>, err |-> "no target environments found to promote from"]
       ELSE [envs |-> envs, err |-> NoErr]

(***************************************************************************)
(* Cross-environment release list (cross.ReleaseList).  The catalog's      *)
(* releases for the compared pair are a function                           *)
(*   name -> [source |-> version, target |-> version]                      *)
(* with NoRelease for an absent release.                                   *)
(***************************************************************************)
ReleaseOrder == <<"api", "web">>

NoRelease == "<none>"

NoFile == "<nil>"

StandardVersions == {"1.0", "0.9"}

\* The (source, target) version pairs a release name can have in a catalog.
RowKinds ==
    { [source |-> "1.0", target |-> "1.0"],
      [source |-> "1.0", target |-> "0.9"],
      [source |-> "1.0", target |-> "0.9-custom"],
      [source |-> "1.0", target |-> NoRelease],
      [source |-> NoRelease, target |-> NoRelease] }

Worlds == [Range(ReleaseOrder) -> RowKinds]

NoWorld == [n \in Range(ReleaseOrder) |-> [source |-> NoRelease, target |-> NoRelease]]

\* One cross.Release row: the staged promoted file is the target after
\* copying the source's version, and is nil when the two are in sync.
Row(name, rel) ==
    [Name |-> name,
     Releases |-> <<rel.source, rel.target>>,
     PromotedFile |-> IF rel.source # NoRelease /\ rel.source # rel.target
                      THEN rel.source ELSE NoFile]

GetReleasesForPromotion(world) ==
    LET rows == [i \in 1..Len(ReleaseOrder) |-> Row(ReleaseOrder[i], world[ReleaseOrder[i]])]
        Present(row) == row.Releases # <<NoRelease, NoRelease>>
    IN SelectSeq(rows, Present)

HasAnyPromotableReleases(list) ==
    \E i \in 1..Len(list) : list[i].PromotedFile # NoFile

OnlySpecificReleases(list, names) ==
    LET Named(row) == row.Name \in Range(names)
    IN SelectSeq(list, Named)

\* Names whose target carries a pinned (non-standard) version that the
\* promotion would replace.
GetNonPromotableReleases(list) ==
    LET Pinned(row) == /\ row.Releases[2] # NoRelease
                       /\ row.Releases[2] # row.Releases[1]
                       /\ row.Releases[2] \notin StandardVersions
        bad == SelectSeq(list, Pinned)
    IN [i \in 1..Len(bad) |-> bad[i].Name]

IsPromotableTo(source, target) ==
    source.Name \in Range(target.FromEnvironments)

(***************************************************************************)
(* The state of one run: opts as Promote sees (and overwrites) them, the   *)
(* position in the code, the collaborator calls made so far in order, the  *)
(* locals confirmed and answer, the state of the git working copy, the     *)
(* target environment's release files and the result.                      *)
(***************************************************************************)
NoParams == [list |-> <<>>, autoMerge |-> FALSE, draft |-> FALSE, dryRun |-> FALSE]

NewRun(op, opts, wc) ==
    [op |-> op,
     workingCopy |-> wc,
     pc |-> IF op = "Promote" THEN "ensure"
            ELSE IF op \in {"List", "ListCatalog"} THEN "listEnsure" ELSE "idle",
     opts |-> opts,
     notice |-> FALSE,
     calls |-> <<>>,
     list |-> <<>>,
     selectedList |-> <<>>,
     performParams |-> NoParams,
     catalog |-> NoWorld,
     files |-> [n \in Range(ReleaseOrder) |-> NoRelease],
     written |-> <<>>,
     confirmed |-> "unset",
     answer |-> "unset",
     url |-> "",
     err |-> NoErr]

Call(r, c) == [r EXCEPT !.calls = Append(@, c)]

Finish(r, url, err) == [r EXCEPT !.pc = "done", !.url = url, !.err = err]

\* What the collaborators answer in one step; a step reads only its own fields.
DefaultAnswer ==
    [err |-> NoErr, env |-> NilEnv, world |-> NoWorld, selection |-> {},
     confirmed |-> TRUE, answer |-> "Ready", amErr |-> NoErr, automerge |-> FALSE,
     failAt |-> 0, extErr |-> NoErr]

(***************************************************************************)
(* Promotion.Promote, one operator per stretch of code between two         *)
(* collaborator calls.  Each takes the run and the collaborators' answer   *)
(* and gives the run after the stretch.                                    *)
(***************************************************************************)

\* GitProvider.EnsureCleanAndUpToDateWorkingCopy: an error unless the
\* working copy is clean and up to date.
NotCleanErr == "working copy is not clean and up to date"

EnsureCleanAndUpToDateWorkingCopy(r) ==
    IF r.workingCopy = "clean" THEN NoErr ELSE NotCleanErr

\* Dry-run notice, then the working-copy check.
EnsureStepIgnoringError(r, a) ==
    [Call([r EXCEPT !.notice = r.opts.DryRun], "EnsureCleanAndUpToDateWorkingCopy")
        EXCEPT !.pc = "source"]

EnsureStep(r, a) ==
    LET r1 == Call([r EXCEPT !.notice = r.opts.DryRun],
                   "EnsureCleanAndUpToDateWorkingCopy")
        err == EnsureCleanAndUpToDateWorkingCopy(r)
    IN IF err # NoErr THEN Finish(r1, "", err)
       ELSE [r1 EXCEPT !.pc = "source"]

\* Prompt user to select source environment.
SelectSourceStep(r, a) ==
    IF r.opts.SourceEnv # NilEnv THEN [r EXCEPT !.pc = "target"]
    ELSE LET res == getSourceEnvironments(r.opts.SelectedEnvironments)
             r1 == Call(r, "getSourceEnvironments")
             r2 == Call(r1, "SelectSourceEnvironment")
         IN IF res.err # NoErr THEN Finish(r1, "", res.err)
            ELSE IF a.err # NoErr THEN Finish(r2, "", a.err)
            ELSE [r2 EXCEPT !.opts.SourceEnv = a.env, !.pc = "target"]

\* Prompt user to select target environment.
SelectTargetStep(r, a) ==
    IF r.opts.TargetEnv # NilEnv THEN [r EXCEPT !.pc = "policy"]
    ELSE LET res == getTargetEnvironments(r.opts.SelectedEnvironments, r.opts.SourceEnv)
             r1 == Call(r, "getTargetEnvironments")
             r2 == Call(r1, "SelectTargetEnvironment")
         IN IF res.err # NoErr THEN Finish(r1, "", res.err)
            ELSE IF a.err # NoErr THEN Finish(r2, "", a.err)
            ELSE [r2 EXCEPT !.opts.TargetEnv = a.env, !.pc = "policy"]

\* Auto-merge policy, then promotability of the pair.
PolicyStepPromotabilityFirst(r, a) ==
    LET r1 == Call(r, "IsPromotableTo")
    IN IF ~IsPromotableTo(r.opts.SourceEnv, r.opts.TargetEnv)
       THEN Finish(r1, "", "environment is not promotable to target")
       ELSE IF ~r.opts.TargetEnv.AllowAutoMerge /\ r.opts.AutoMerge
       THEN Finish(r1, "", "auto-merge is not allowed for target environment")
       ELSE [r1 EXCEPT !.pc = "match"]

\* Promotability of the pair only.
PolicyStepWithoutAutoMergeCheck(r, a) ==
    LET r1 == Call(r, "IsPromotableTo")
    IN IF ~IsPromotableTo(r.opts.SourceEnv, r.opts.TargetEnv)
       THEN Finish(r1, "", "environment is not promotable to target")
       ELSE [r1 EXCEPT !.pc = "match"]

PolicyStep(r, a) ==
    IF ~r.opts.TargetEnv.AllowAutoMerge /\ r.opts.AutoMerge
    THEN Finish(r, "", "auto-merge is not allowed for target environment")
    ELSE LET r1 == Call(r, "IsPromotableTo")
         IN IF ~IsPromotableTo(r.opts.SourceEnv, r.opts.TargetEnv)
            THEN Finish(r1, "", "environment is not promotable to target")
            ELSE [r1 EXCEPT !.pc = "match"]

\* Build the list for the pair; stop when nothing differs.
MatchStepNoShortCircuit(r, a) ==
    LET r1 == Call(r, "GetReleasesForPromotion")
    IN IF a.err # NoErr THEN Finish(r1, "", "getting releases for promotion")
       ELSE [r1 EXCEPT !.catalog = a.world,
                       !.files = [n \in Range(ReleaseOrder) |-> a.world[n].target],
                       !.list = GetReleasesForPromotion(a.world),
                       !.pc = "select"]

MatchStep(r, a) ==
    LET r1 == Call(r, "GetReleasesForPromotion")
        list == GetReleasesForPromotion(a.world)
        r2 == [r1 EXCEPT !.catalog = a.world,
                         !.files = [n \in Range(ReleaseOrder) |-> a.world[n].target],
                         !.list = list]
    IN IF a.err # NoErr THEN Finish(r1, "", "getting releases for promotion")
       ELSE IF ~HasAnyPromotableReleases(list)
       THEN Finish(Call(r2, "PrintNoPromotableReleasesFound"), "", NoErr)
       ELSE [r2 EXCEPT !.pc = "select"]

\* The releases given in opts, or the ones the user selects.
SelectReleasesStep(r, a) ==
    IF Len(r.opts.Releases) > 0
    THEN [r EXCEPT !.selectedList = OnlySpecificReleases(r.list, r.opts.Releases),
                   !.pc = "validate"]
    ELSE LET r1 == Call(r, "SelectReleases")
             Picked(row) == row.Name \in a.selection
         IN IF a.err # NoErr THEN Finish(r1, "", "selecting releases to promote")
            ELSE [r1 EXCEPT !.selectedList = SelectSeq(r.list, Picked),
                            !.pc = "validate"]

\* All or nothing: one non-promotable selected release aborts the run.
ValidateStepPartial(r, a) ==
    LET invalidList == GetNonPromotableReleases(r.selectedList)
    IN IF Len(invalidList) # 0 /\ Len(invalidList) = Len(r.selectedList)
       THEN Finish(Call(r, "PrintSelectedNonPromotableReleases"), "",
                   "cannot promote releases with non-standard version")
       ELSE [r EXCEPT !.pc = "preview"]

ValidateStep(r, a) ==
    LET invalidList == GetNonPromotableReleases(r.selectedList)
    IN IF Len(invalidList) # 0
       THEN Finish(Call(r, "PrintSelectedNonPromotableReleases"), "",
                   "cannot promote releases with non-standard version")
       ELSE [r EXCEPT !.pc = "preview"]

\* preview(selectedList) unless NoPrompt, then the perform parameters.
PerformParamsDroppingDryRun(r) ==
    [list |-> r.selectedList, autoMerge |-> r.opts.AutoMerge,
     draft |-> r.opts.Draft, dryRun |-> FALSE]

PerformParams(r) ==
    [list |-> r.selectedList, autoMerge |-> r.opts.AutoMerge,
     draft |-> r.opts.Draft, dryRun |-> r.opts.DryRun]

PreviewStep(r, a) ==
    LET r1 == Call(r, "PrintStartPreview")
        r2 == Call(r1, "PrintReleasePreview")
        r3 == Call(IF HasAnyPromotableReleases(r.selectedList) THEN r2 ELSE r1,
                   "PrintEndPreview")
        params == PerformParams(r)
    IN IF r.opts.NoPrompt
       THEN [r EXCEPT !.performParams = params, !.pc = "confirm"]
       ELSE IF HasAnyPromotableReleases(r.selectedList) /\ a.err # NoErr
       THEN Finish(r2, "", "previewing")
       ELSE [r3 EXCEPT !.performParams = params, !.pc = "confirm"]

\* NoPrompt, or confirmation of the requested kind, or the user's choice.
ConfirmStepCancelFallsThrough(r, a) ==
    LET r1 == [Call(r, "ConfirmCreatingPromotionPullRequest")
                 EXCEPT !.confirmed = IF a.confirmed THEN "true" ELSE "false"]
        s1 == [Call(r, "SelectCreatingPromotionPullRequest") EXCEPT !.answer = a.answer]
    IN IF r.opts.NoPrompt THEN [r EXCEPT !.pc = "perform"]
       ELSE IF r.opts.AutoMerge \/ r.opts.Draft
       THEN IF a.err # NoErr
            THEN Finish(Call(r, "ConfirmCreatingPromotionPullRequest"), "",
                        "confirming creating promotion pull request")
            ELSE [r1 EXCEPT !.pc = "perform"]
       ELSE IF a.err # NoErr
            THEN Finish(Call(r, "SelectCreatingPromotionPullRequest"), "",
                        "selecting create promotion pull request")
            ELSE [s1 EXCEPT !.pc = "perform"]

ConfirmStep(r, a) ==
    LET c0 == Call(r, "ConfirmCreatingPromotionPullRequest")
        c1 == [c0 EXCEPT !.confirmed = IF a.confirmed THEN "true" ELSE "false"]
        s0 == Call(r, "SelectCreatingPromotionPullRequest")
        s1 == [s0 EXCEPT !.answer = a.answer]
        s2 == Call(s1, "ConfirmAutoMergePullRequest")
    IN IF r.opts.NoPrompt THEN [r EXCEPT !.pc = "perform"]
       ELSE IF r.opts.AutoMerge \/ r.opts.Draft
       THEN IF a.err # NoErr
            THEN Finish(c0, "", "confirming creating promotion pull request")
            ELSE IF ~a.confirmed THEN Finish(Call(c1, "PrintCanceled"), "", NoErr)
            ELSE [c1 EXCEPT !.pc = "perform"]
       ELSE IF a.err # NoErr
            THEN Finish(s0, "", "selecting create promotion pull request")
            ELSE IF a.answer = "Cancel" THEN Finish(Call(s1, "PrintCanceled"), "", NoErr)
            ELSE IF a.answer = "Draft"
            THEN [s1 EXCEPT !.performParams.draft = TRUE, !.pc = "perform"]
            ELSE IF ~r.opts.TargetEnv.AllowAutoMerge THEN [s1 EXCEPT !.pc = "perform"]
            ELSE IF a.amErr # NoErr THEN Finish(s2, "", "confirming automerge")
            ELSE [s2 EXCEPT !.performParams.autoMerge = a.automerge, !.pc = "perform"]

(***************************************************************************)
(* perform: writes the promoted file of each selected release that differs *)
(* (nothing in dry-run), then commits, pushes and opens the pull request.  *)
(* A write that fails leaves the earlier writes in place.                  *)
(***************************************************************************)
Differing(list) ==
    LET Staged(row) == row.PromotedFile # NoFile
    IN SelectSeq(list, Staged)

RECURSIVE WriteFiles(_, _, _)
WriteFiles(r, rows, n) ==
    IF n = 0 THEN r
    ELSE LET before == WriteFiles(r, rows, n - 1)
             row == rows[n]
         IN [before EXCEPT !.files[row.Name] = row.PromotedFile,
                           !.written = Append(@, row.Name),
                           !.calls = Append(@, "yamlWriter.Write")]

PerformStep(r, a) ==
    LET p == r.performParams
        r1 == Call(r, "perform")
        rows == Differing(p.list)
    IN IF p.dryRun THEN Finish(r1, "", NoErr)
       ELSE IF a.failAt \in 1..Len(rows)
       THEN Finish(Call(WriteFiles(r1, rows, a.failAt - 1), "yamlWriter.Write"),
                   "", "writing release file")
       ELSE LET r2 == Call(WriteFiles(r1, rows, Len(rows)), "CommitAndPush")
                r3 == Call(r2, "CreatePullRequest")
            IN IF a.extErr = "git" THEN Finish(r2, "", "committing and pushing")
               ELSE IF a.extErr = "pr" THEN Finish(r3, "", "creating pull request")
               ELSE Finish(r3, "https://pr/1", NoErr)

(***************************************************************************)
(* List: the working-copy check, the loads, the print.  "List" is          *)
(* internal/releasing/list (environments, then cross releases);            *)
(* "ListCatalog" is the revision that loads the catalog in one call.       *)
(***************************************************************************)
ListEnsureStep(r, a) ==
    LET r1 == Call(r, "EnsureCleanAndUpToDateWorkingCopy")
        err == EnsureCleanAndUpToDateWorkingCopy(r)
    IN IF err # NoErr THEN Finish(r1, "", err)
       ELSE [r1 EXCEPT !.pc = "listLoad"]

ListLoadStep(r, a) ==
    LET e1 == Call(r, "environment.LoadAll")
        e2 == Call(e1, "LoadCrossReleaseList")
        c1 == Call(r, "catalog.Load")
    IN IF r.op = "List"
       THEN IF a.err # NoErr THEN Finish(e1, "", "loading environments")
            ELSE IF a.amErr # NoErr
            THEN Finish(e2, "", "loading cross-environment releases")
            ELSE Finish(Call(e2, "Print"), "", NoErr)
       ELSE IF a.err # NoErr THEN Finish(c1, "", "loading catalog")
            ELSE Finish(Call(c1, "Print"), "", NoErr)

(***************************************************************************)
(* What the collaborators can answer at each position.                     *)
(***************************************************************************)
Errs(e) == {[DefaultAnswer EXCEPT !.err = x] : x \in {NoErr, e}}

Subsets(list) == SUBSET {list[i].Name : i \in 1..Len(list)}

AnswersAt(r) ==
    CASE r.pc = "ensure" -> {DefaultAnswer}
      [] r.pc = "source" ->
            IF r.opts.SourceEnv # NilEnv THEN {DefaultAnswer}
            ELSE {[DefaultAnswer EXCEPT !.err = "prompt failed"]} \cup
                 {[DefaultAnswer EXCEPT !.env = e] :
                    e \in Range(getSourceEnvironments(r.opts.SelectedEnvironments).envs)}
      [] r.pc = "target" ->
            IF r.opts.TargetEnv # NilEnv THEN {DefaultAnswer}
            ELSE {[DefaultAnswer EXCEPT !.err = "prompt failed"]} \cup
                 {[DefaultAnswer EXCEPT !.env = e] :
                    e \in Range(getTargetEnvironments(r.opts.SelectedEnvironments,
                                                      r.opts.SourceEnv).envs)}
      [] r.pc = "policy" -> {DefaultAnswer}
      [] r.pc = "match" ->
            {[DefaultAnswer EXCEPT !.err = "catalog error"]} \cup
            {[DefaultAnswer EXCEPT !.world = w] : w \in Worlds}
      [] r.pc = "select" ->
            IF Len(r.opts.Releases) > 0 THEN {DefaultAnswer}
            ELSE {[DefaultAnswer EXCEPT !.err = "prompt failed"]} \cup
                 {[DefaultAnswer EXCEPT !.selection = sel] : sel \in Subsets(r.list)}
      [] r.pc = "validate" -> {DefaultAnswer}
      [] r.pc = "preview" -> IF r.opts.NoPrompt THEN {DefaultAnswer}
                             ELSE Errs("printing release preview")
      [] r.pc = "confirm" ->
            IF r.opts.NoPrompt THEN {DefaultAnswer}
            ELSE IF r.opts.AutoMerge \/ r.opts.Draft
            THEN {[DefaultAnswer EXCEPT !.err = e, !.confirmed = c] :
                    e \in {NoErr, "prompt failed"}, c \in BOOLEAN}
            ELSE {[DefaultAnswer EXCEPT !.err = "prompt failed"]} \cup
                 {[DefaultAnswer EXCEPT !.answer = w] : w \in {"Draft", "Cancel"}} \cup
                 {[DefaultAnswer EXCEPT !.amErr = e, !.automerge = m] :
                    e \in {NoErr, "prompt failed"}, m \in BOOLEAN}
      [] r.pc = "perform" ->
            {[DefaultAnswer EXCEPT !.failAt = k] :
                k \in 1..Len(Differing(r.performParams.list))} \cup
            {[DefaultAnswer EXCEPT !.extErr = e] : e \in {NoErr, "git", "pr"}}
      [] r.pc = "listEnsure" -> {DefaultAnswer}
      [] r.pc = "listLoad" ->
            {[DefaultAnswer EXCEPT !.err = e, !.amErr = f] :
                e \in {NoErr, "load failed"}, f \in {NoErr, "load failed"}}
      [] OTHER -> {}

\* The step Promote takes from r's position.
PromoteStep(r, a) ==
    CASE r.pc = "ensure" -> EnsureStep(r, a)
      [] r.pc = "source" -> SelectSourceStep(r, a)
      [] r.pc = "target" -> SelectTargetStep(r, a)
      [] r.pc = "policy" -> PolicyStep(r, a)
      [] r.pc = "match" -> MatchStep(r, a)
      [] r.pc = "select" -> SelectReleasesStep(r, a)
      [] r.pc = "validate" -> ValidateStep(r, a)
      [] r.pc = "preview" -> PreviewStep(r, a)
      [] r.pc = "confirm" -> ConfirmStep(r, a)
      [] r.pc = "perform" -> PerformStep(r, a)
      [] OTHER -> r

(***************************************************************************)
(* The catalogs and options a run starts from.                             *)
(***************************************************************************)
Chain ==
    <<Env("dev", <<>>, FALSE), Env("staging", <<"dev">>, TRUE),
      Env("prod", <<"staging">>, FALSE)>>

FanIn ==
    <<Env("dev", <<>>, TRUE), Env("staging", <<"dev", "dev">>, FALSE),
      Env("prod", <<"dev", "staging">>, TRUE)>>

Isolated ==
    <<Env("dev", <<>>, TRUE), Env("staging", <<>>, FALSE), Env("prod", <<>>, TRUE)>>

SelfLoop ==
    <<Env("dev", <<"dev">>, TRUE), Env("staging", <<>>, FALSE), Env("prod", <<>>, FALSE)>>

Mutual ==
    <<Env("dev", <<>>, FALSE), Env("staging", <<"prod">>, TRUE),
      Env("prod", <<"staging">>, FALSE)>>

Catalogs == {Chain, FanIn, Isolated, SelfLoop, Mutual}

ReleaseArgs == {<<>>, <<"api">>, <<"web", "api">>, <<"ghost">>}

OptsOf(c) ==
    {[SourceEnv |-> s, TargetEnv |-> t, Releases |-> rel, NoPrompt |-> np,
      AutoMerge |-> am, Draft |-> d, SelectedEnvironments |-> sel, DryRun |-> dry] :
        s \in {NilEnv} \cup Range(c), t \in {NilEnv} \cup Range(c),
        rel \in ReleaseArgs, np \in BOOLEAN, am \in BOOLEAN, d \in BOOLEAN,
        sel \in {c, Tail(c)}, dry \in BOOLEAN}

PromoteOpts == UNION {OptsOf(c) : c \in Catalogs}

ListOpts ==
    [SourceEnv |-> NilEnv, TargetEnv |-> NilEnv, Releases |-> <<>>, NoPrompt |-> FALSE,
     AutoMerge |-> FALSE, Draft |-> FALSE, SelectedEnvironments |-> <<>>,
     DryRun |-> FALSE]

WorkingCopies == {"clean", "dirty"}

Idle == [fn |-> "idle"]

Init ==
    /\ run \in {NewRun("Promote", o, wc) : o \in PromoteOpts, wc \in WorkingCopies}
               \cup {NewRun(op, ListOpts, wc) :
                        op \in {"List", "ListCatalog"}, wc \in WorkingCopies}
    /\ pure = Idle
    /\ hyd = Idle

Ensure ==
    /\ run.pc = "ensure"
    /\ \E a \in AnswersAt(run) : run' = EnsureStep(run, a)
    /\ UNCHANGED <<pure, hyd>>

SelectSource ==
    /\ run.pc = "source"
    /\ \E a \in AnswersAt(run) : run' = SelectSourceStep(run, a)
    /\ UNCHANGED <<pure, hyd>>

SelectTarget ==
    /\ run.pc = "target"
    /\ \E a \in AnswersAt(run) : run' = SelectTargetStep(run, a)
    /\ UNCHANGED <<pure, hyd>>

Policy ==
    /\ run.pc = "policy"
    /\ \E a \in AnswersAt(run) : run' = PolicyStep(run, a)
    /\ UNCHANGED <<pure, hyd>>

Match ==
    /\ run.pc = "match"
    /\ \E a \in AnswersAt(run) : run' = MatchStep(run, a)
    /\ UNCHANGED <<pure, hyd>>

SelectReleases ==
    /\ run.pc = "select"
    /\ \E a \in AnswersAt(run) : run' = SelectReleasesStep(run, a)
    /\ UNCHANGED <<pure, hyd>>

Validate ==
    /\ run.pc = "validate"
    /\ \E a \in AnswersAt(run) : run' = ValidateStep(run, a)
    /\ UNCHANGED <<pure, hyd>>

Preview ==
    /\ run.pc = "preview"
    /\ \E a \in AnswersAt(run) : run' = PreviewStep(run, a)
    /\ UNCHANGED <<pure, hyd>>

Confirm ==
    /\ run.pc = "confirm"
    /\ \E a \in AnswersAt(run) : run' = ConfirmStep(run, a)
    /\ UNCHANGED <<pure, hyd>>

Perform ==
    /\ run.pc = "perform"
    /\ \E a \in AnswersAt(run) : run' = PerformStep(run, a)
    /\ UNCHANGED <<pure, hyd>>

ListEnsure ==
    /\ run.pc = "listEnsure"
    /\ \E a \in AnswersAt(run) : run' = ListEnsureStep(run, a)
    /\ UNCHANGED <<pure, hyd>>

ListLoad ==
    /\ run.pc = "listLoad"
    /\ \E a \in AnswersAt(run) : run' = ListLoadStep(run, a)
    /\ UNCHANGED <<pure, hyd>>

Next ==
    \/ Ensure
    \/ SelectSource
    \/ SelectTarget
    \/ Policy
    \/ Match
    \/ SelectReleases
    \/ Validate
    \/ Preview
    \/ Confirm
    \/ Perform
    \/ ListEnsure
    \/ ListLoad

Spec == Init /\ [][Next]_vars

(***************************************************************************)
(* Properties of Promote and List (checked under Spec)                     *)
(***************************************************************************)
Called(c) == c \in Range(run.calls)

EnsureCall == "EnsureCleanAndUpToDateWorkingCopy"

\* The calls Promote makes once source and target have passed the policy check.
MatchingCalls == {"GetReleasesForPromotion", "PrintNoPromotableReleasesFound"}

SelectionCalls ==
    {"SelectReleases", "PrintSelectedNonPromotableReleases", "PrintStartPreview",
     "PrintReleasePreview", "PrintEndPreview", "ConfirmCreatingPromotionPullRequest",
     "SelectCreatingPromotionPullRequest", "ConfirmAutoMergePullRequest",
     "PrintCanceled"}

PerformCalls == {"perform", "yamlWriter.Write", "CommitAndPush", "CreatePullRequest"}

FilesUntouched ==
    /\ run.written = <<>>
    /\ run.files = [n \in Range(ReleaseOrder) |-> run.catalog[n].target]

\* C1: in every run of Promote and of List the working-copy check is called
\* exactly once and is the first call; when the working copy is not clean the
\* run returns the check's error and makes no other call and writes no file.
C1_EnsureOnceBeforeAnyOtherWork ==
    /\ Count(run.calls, EnsureCall) <= 1
    /\ run.calls # <<>> => run.calls[1] = EnsureCall
    /\ run.pc \notin {"ensure", "listEnsure"} => Count(run.calls, EnsureCall) = 1
    /\ (run.workingCopy # "clean" /\ run.pc \notin {"ensure", "listEnsure"}) =>
          /\ run.pc = "done"
          /\ run.err = NotCleanErr
          /\ run.url = ""
          /\ run.calls = <<EnsureCall>>
          /\ FilesUntouched

C1_Witness ==
    /\ run.op = "Promote"
    /\ run.pc = "done"
    /\ run.workingCopy = "dirty"
    /\ run.opts.SourceEnv = NilEnv
    /\ run.calls = <<EnsureCall>>

\* C2: whenever GetNonPromotableReleases on the selected list returns a name,
\* Promote ends with an error and an empty URL, perform is never invoked and no
\* release file is written, not even for the promotable releases selected.
C2_AllOrNothing ==
    (/\ run.op = "Promote"
     /\ run.pc \in {"preview", "confirm", "perform", "done"}
     /\ Len(GetNonPromotableReleases(run.selectedList)) # 0) =>
        /\ run.pc = "done"
        /\ run.err = "cannot promote releases with non-standard version"
        /\ run.url = ""
        /\ ~Called("perform")
        /\ FilesUntouched

C2_Witness ==
    /\ run.pc = "done"
    /\ run.err = "cannot promote releases with non-standard version"
    /\ Len(GetNonPromotableReleases(run.selectedList)) = 1
    /\ Len(Differing(run.selectedList)) = 2

\* C3: when the list built for the pair has no promotable release, Promote
\* prints the no-promotable-releases message and returns an empty URL and no
\* error, with no release selection, preview, confirmation or perform call.
C3_NothingToPromote ==
    (/\ Called("GetReleasesForPromotion")
     /\ run.err # "getting releases for promotion"
     /\ ~HasAnyPromotableReleases(run.list)) =>
        /\ run.pc = "done"
        /\ run.url = ""
        /\ run.err = NoErr
        /\ run.calls[Len(run.calls)] = "PrintNoPromotableReleasesFound"
        /\ Range(run.calls) \cap (SelectionCalls \cup PerformCalls) = {}

C3_Witness ==
    /\ run.pc = "done"
    /\ Called("PrintNoPromotableReleasesFound")
    /\ Len(run.list) = 2
    /\ run.opts.Releases = <<>>
    /\ ~run.opts.NoPrompt

\* C4: when the user declines the confirmation or answers Cancel, Promote
\* prints the cancel message, returns an empty URL and no error and never
\* invokes perform; a non-empty URL is returned only after perform was invoked.
C4_CancelIsNormalResult ==
    /\ (run.confirmed = "false" \/ run.answer = "Cancel") =>
          /\ run.pc = "done"
          /\ run.url = ""
          /\ run.err = NoErr
          /\ run.calls[Len(run.calls)] = "PrintCanceled"
          /\ ~Called("perform")
          /\ FilesUntouched
    /\ run.url # "" => Called("perform")

C4_Witness ==
    /\ run.pc = "done"
    /\ run.answer = "Cancel"
    /\ Len(Differing(run.selectedList)) > 0

\* C5: when auto-merge is requested and the known target does not allow it,
\* Promote ends at the policy check with the policy error: no promotability
\* check, matching, selection, preview, confirmation or perform call is made.
C5_AutoMergePolicyFirst ==
    (/\ run.op = "Promote"
     /\ run.opts.AutoMerge
     /\ run.opts.TargetEnv # NilEnv
     /\ ~run.opts.TargetEnv.AllowAutoMerge) =>
        /\ Range(run.calls) \cap
             ({"IsPromotableTo"} \cup MatchingCalls \cup SelectionCalls \cup PerformCalls)
             = {}
        /\ run.pc \notin {"match", "select", "validate", "preview", "confirm", "perform"}
        /\ (/\ run.pc = "done"
            /\ run.workingCopy = "clean"
            /\ run.opts.SourceEnv # NilEnv) =>
               /\ run.err = "auto-merge is not allowed for target environment"
               /\ run.url = ""

C5_Witness ==
    /\ run.pc = "done"
    /\ run.err = "auto-merge is not allowed for target environment"
    /\ IsPromotableTo(run.opts.SourceEnv, run.opts.TargetEnv)
    /\ Called("SelectTargetEnvironment")

\* C6: an environment with empty fromEnvironments is never a target candidate
\* of getTargetEnvironments, and a run whose target is such an environment
\* ends with an error, the not-promotable one once the promotability check is
\* reached, without release matching, perform or a file write.
C6_EmptyFromNeverTarget ==
    /\ \A src \in Range(run.opts.SelectedEnvironments) :
         \A env \in Range(getTargetEnvironments(run.opts.SelectedEnvironments, src).envs) :
            env.FromEnvironments # <<>>
    /\ (run.opts.TargetEnv # NilEnv /\ run.opts.TargetEnv.FromEnvironments = <<>>) =>
          /\ Range(run.calls) \cap (MatchingCalls \cup SelectionCalls \cup PerformCalls) = {}
          /\ ~Called("SelectTargetEnvironment")
          /\ FilesUntouched
          /\ run.pc \notin {"match", "select", "validate", "preview", "confirm", "perform"}
          /\ run.pc = "done" => run.err # NoErr /\ run.url = ""
          /\ Called("IsPromotableTo") =>
                run.pc = "done" /\ run.err = "environment is not promotable to target"

C6_Witness ==
    /\ run.pc = "done"
    /\ run.opts.TargetEnv # NilEnv
    /\ run.opts.TargetEnv.FromEnvironments = <<>>
    /\ Called("SelectSourceEnvironment")
    /\ run.err = "environment is not promotable to target"

\* C7: a dry run takes, from every position before perform and for every
\* answer of the collaborators, the same step as the normal run in the same
\* state; it reaches perform with dryRun set; and it never writes or changes
\* a release file.
WithDryRun(r, dry) ==
    [r EXCEPT !.opts.DryRun = dry, !.notice = FALSE, !.performParams.dryRun = dry]

C7_DryRunSameStepsNoWrite ==
    /\ (run.op = "Promote" /\ run.pc \notin {"perform", "done"}) =>
          /\ AnswersAt(WithDryRun(run, TRUE)) = AnswersAt(WithDryRun(run, FALSE))
          /\ \A a \in AnswersAt(run) :
                WithDryRun(PromoteStep(WithDryRun(run, TRUE), a), FALSE)
                   = WithDryRun(PromoteStep(WithDryRun(run, FALSE), a), FALSE)
    /\ run.pc = "perform" => run.performParams.dryRun = run.opts.DryRun
    /\ run.opts.DryRun => FilesUntouched /\ ~Called("yamlWriter.Write")

C7_Witness ==
    /\ run.opts.DryRun
    /\ run.pc = "done"
    /\ Called("perform")
    /\ Len(Differing(run.performParams.list)) = 2
    /\ Called("PrintEndPreview")

(***************************************************************************)
(* SpecEnvs: the two candidate functions applied to every list of at most  *)
(* three distinctly named environments whose fromEnvironments has at most  *)
(* MaxFrom entries (repeated entries and names outside the list included). *)
(***************************************************************************)
MaxFrom == 2

NameLists == {q \in SeqsUpTo(EnvNames, Cardinality(EnvNames)) :
                \A i, j \in 1..Len(q) : i # j => q[i] # q[j]}

\* The environments named by names, the i-th with the i-th list of froms.
EnvList(names, froms) == [i \in 1..Len(names) |-> Env(names[i], froms[i], FALSE)]

InitEnvs ==
    /\ \E names \in NameLists :
          \E froms \in [1..Len(names) -> SeqsUpTo(EnvNames, MaxFrom)] :
             pure = [fn |-> "ready", environments |-> EnvList(names, froms),
                     source |-> NilEnv, result |-> [envs |-> <<>>, err |-> NoErr]]
    /\ run = NewRun("none", ListOpts, "clean")
    /\ hyd = Idle

CallGetSourceEnvironments ==
    /\ pure.fn = "ready"
    /\ pure' = [pure EXCEPT !.fn = "getSourceEnvironments",
                            !.result = getSourceEnvironments(pure.environments)]
    /\ UNCHANGED <<run, hyd>>

\* The source is an environment of the list, or one that is not in it.
CallGetTargetEnvironments ==
    /\ pure.fn = "ready"
    /\ \E src \in Range(pure.environments)
                    \cup {Env(n, <<>>, FALSE) :
                            n \in EnvNames \ {e.Name : e \in Range(pure.environments)}} :
          pure' = [pure EXCEPT !.fn = "getTargetEnvironments",
                               !.source = src,
                               !.result = getTargetEnvironments(pure.environments, src)]
    /\ UNCHANGED <<run, hyd>>

NextEnvs ==
    \/ CallGetSourceEnvironments
    \/ CallGetTargetEnvironments

SpecEnvs == InitEnvs /\ [][NextEnvs]_vars

\* C8: getSourceEnvironments returns, in input order, exactly the environments
\* named in the fromEnvironments of some other environment of the input, and
\* the no-promotable-sources error exactly when there is none.
NamedByAnother(environments, env) ==
    \E other \in Range(environments) :
        other.Name # env.Name /\ env.Name \in Range(other.FromEnvironments)

C8_SourcesNamedByAnotherEnvironment ==
    pure.fn = "getSourceEnvironments" =>
        LET Candidate(env) == NamedByAnother(pure.environments, env)
            expected == SelectSeq(pure.environments, Candidate)
        IN /\ pure.result.envs = expected
           /\ pure.result.err # NoErr <=> expected = <<>>

\* C9: getTargetEnvironments returns exactly the environments of the input,
\* other than the source, whose fromEnvironments contains the source's name
\* (nothing reached only through the reverse edge or through a chain of
\* edges), and an error exactly when there is none.
C9_TargetsListTheSource ==
    pure.fn = "getTargetEnvironments" =>
        LET expected == {env \in Range(pure.environments) :
                            /\ env.Name # pure.source.Name
                            /\ pure.source.Name \in Range(env.FromEnvironments)}
        IN /\ Range(pure.result.envs) = expected
           /\ pure.result.err # NoErr <=> expected = {}
           /\ pure.result.err # NoErr => pure.result.envs = <<>>

\* dev -> staging -> prod and prod -> dev: from staging only prod is offered,
\* neither dev (reverse edge) nor anything two edges away.
C9_Witness ==
    /\ pure.fn = "getTargetEnvironments"
    /\ pure.environments = <<Env("dev", <<"prod">>, FALSE), Env("staging", <<"dev">>, FALSE),
                             Env("prod", <<"staging">>, FALSE)>>
    /\ pure.source.Name = "staging"
    /\ pure.result = [envs |-> <<Env("prod", <<"staging">>, FALSE)>>, err |-> NoErr]

(***************************************************************************)
(* Value hydration.  A Go value is [k |-> kind, v |-> payload]:            *)
(*   "int"  a number;  "str"  a string, as its sequence of lexical tokens  *)
(*   ("$", "(", ")", ".", " " for one whitespace character, "-" for a      *)
(*   character that is not a word character, anything else a maximal run   *)
(*   of word characters);  "seq"  a []any, as the sequence of its          *)
(*   elements;  "map"  a map[string]any, as the ADDRESS of the map in the  *)
(*   heap: Go maps are references, so two values can share one map.        *)
(* The heap is a sequence of maps, each a function from keys to values.    *)
(* A tree is the same with a map given by its content (a function) in      *)
(* place of an address: what a deep comparison of two values compares.     *)
(***************************************************************************)
IntVal(n) == [k |-> "int", v |-> n]

StrVal(tokens) == [k |-> "str", v |-> tokens]

SeqVal(items) == [k |-> "seq", v |-> items]

MapAt(addr) == [k |-> "map", v |-> addr]

TreeMap(f) == [k |-> "map", v |-> f]

Nil == [k |-> "nil", v |-> 0]

EmptyMap == <<>>

NoError == [msg |-> "", at |-> ""]

Error(msg, at) == [msg |-> msg, at |-> at]

\* Lays a tree out in the heap: [heap, val].
RECURSIVE Alloc(_, _)
RECURSIVE AllocEntries(_, _, _)
RECURSIVE AllocItems(_, _)
Alloc(tree, heap) ==
    IF tree.k = "map"
    THEN LET kids == AllocEntries(tree.v, DOMAIN tree.v, heap)
         IN [heap |-> Append(kids.heap, kids.obj), val |-> MapAt(Len(kids.heap) + 1)]
    ELSE IF tree.k = "seq"
    THEN LET kids == AllocItems(tree.v, heap)
         IN [heap |-> kids.heap, val |-> SeqVal(kids.vals)]
    ELSE [heap |-> heap, val |-> tree]

AllocEntries(f, keys, heap) ==
    IF keys = {} THEN [heap |-> heap, obj |-> EmptyMap]
    ELSE LET key == CHOOSE x \in keys : TRUE
             rest == AllocEntries(f, keys \ {key}, heap)
             kid == Alloc(f[key], rest.heap)
         IN [heap |-> kid.heap, obj |-> rest.obj @@ (key :> kid.val)]

AllocItems(items, heap) ==
    IF items = <<>> THEN [heap |-> heap, vals |-> <<>>]
    ELSE LET first == Alloc(Head(items), heap)
             rest == AllocItems(Tail(items), first.heap)
         IN [heap |-> rest.heap, vals |-> <<first.val>> \o rest.vals]

\* The tree a value denotes in a heap (what reflect.DeepEqual compares).
RECURSIVE Snapshot(_, _)
Snapshot(val, heap) ==
    IF val.k = "map"
    THEN TreeMap([key \in DOMAIN heap[val.v] |-> Snapshot(heap[val.v][key], heap)])
    ELSE IF val.k = "seq"
    THEN SeqVal([i \in 1..Len(val.v) |-> Snapshot(val.v[i], heap)])
    ELSE val

(***************************************************************************)
(* objectValuesRegex  ^\s*\$(\w+)\(\s*((\.\w+)+)\s*\)\s*$  on tokens:      *)
(* <<>> when the string does not match, else <<operator, fullPath>>.       *)
(***************************************************************************)
SpecialTokens == {"$", "(", ")", ".", " ", "-"}

IsWord(t) == t \notin SpecialTokens

RECURSIVE TrimLeft(_)
TrimLeft(ts) == IF ts # <<>> /\ Head(ts) = " " THEN TrimLeft(Tail(ts)) ELSE ts

RECURSIVE TrimRight(_)
TrimRight(ts) ==
    IF ts # <<>> /\ ts[Len(ts)] = " " THEN TrimRight(SubSeq(ts, 1, Len(ts) - 1)) ELSE ts

Trim(ts) == TrimRight(TrimLeft(ts))

IsDottedPath(ts) ==
    /\ Len(ts) >= 2
    /\ Len(ts) % 2 = 0
    /\ \A i \in 1..Len(ts) : IF i % 2 = 1 THEN ts[i] = "." ELSE IsWord(ts[i])

\* t is the string without the \s* at both ends; the path group is what is
\* left between the parentheses without the \s* around it.
Submatch(t) ==
    IF /\ Len(t) >= 6
       /\ t[1] = "$"
       /\ IsWord(t[2])
       /\ t[3] = "("
       /\ t[Len(t)] = ")"
       /\ IsDottedPath(Trim(SubSeq(t, 4, Len(t) - 1)))
    THEN <<t[2], Trim(SubSeq(t, 4, Len(t) - 1))>>
    ELSE <<>>

FindStringSubmatch(value) == Submatch(Trim(value))

objectValuesSupportedPrefix == <<".", "Environment", ".", "Spec", ".", "Values", ".">>

HasPrefix(ts, prefix) ==
    Len(ts) >= Len(prefix) /\ SubSeq(ts, 1, Len(prefix)) = prefix

\* strings.Split(strings.TrimPrefix(fullPath, prefix), "."): the words left.
ValuesPath(fullPath) ==
    LET rest == SubSeq(fullPath, Len(objectValuesSupportedPrefix) + 1, Len(fullPath))
        IsSegment(t) == t # "."
    IN SelectSeq(rest, IsSegment)

\* Reads the first segment only.
resolveObjectValueFirstSegment(values, path, heap) ==
    IF path[1] \notin DOMAIN heap[values]
    THEN [val |-> Nil, err |-> Error("key not found in values", path[1])]
    ELSE [val |-> heap[values][path[1]], err |-> NoError]

RECURSIVE resolveObjectValue(_, _, _)
resolveObjectValue(values, path, heap) ==
    LET key == path[1]
    IN IF key \notin DOMAIN heap[values]
       THEN [val |-> Nil, err |-> Error("key not found in values", key)]
       ELSE LET value == heap[values][key]
            IN IF Len(path) = 1 THEN [val |-> value, err |-> NoError]
               ELSE IF value.k # "map"
               THEN [val |-> Nil, err |-> Error("value for key is not a map", key)]
               ELSE resolveObjectValue(value.v, Tail(path), heap)

\* return operator, resolvedValue, nil -- or the error of resolveObjectValue.
resolved(operator, r) ==
    IF r.err # NoError
    THEN [operator |-> "", val |-> Nil, err |-> r.err]
    ELSE [operator |-> operator, val |-> r.val, err |-> NoError]

\* Takes any operator name.
resolveMatchesAnyOperator(matches, envValues, heap) ==
    IF ~HasPrefix(matches[2], objectValuesSupportedPrefix)
    THEN [operator |-> "", val |-> Nil,
          err |-> Error("only .Environment.Spec.Values. prefix is supported", "")]
    ELSE resolved(matches[1],
                  resolveObjectValue(envValues, ValuesPath(matches[2]), heap))

\* The checks on the regex's groups: matches is <<operator, fullPath>>.
resolveMatches(matches, envValues, heap) ==
    IF matches[1] # "spread" /\ matches[1] # "ref"
    THEN [operator |-> "", val |-> Nil,
          err |-> Error("unsupported object interpolation operator", matches[1])]
    ELSE IF ~HasPrefix(matches[2], objectValuesSupportedPrefix)
    THEN [operator |-> "", val |-> Nil,
          err |-> Error("only .Environment.Spec.Values. prefix is supported", "")]
    ELSE resolved(matches[1],
                  resolveObjectValue(envValues, ValuesPath(matches[2]), heap))

\* [operator, val, err]; a string that does not match passes through.
resolveOperatorAndValue(value, envValues, heap) ==
    IF Len(FindStringSubmatch(value)) = 0
    THEN [operator |-> "", val |-> StrVal(value), err |-> NoError]
    ELSE resolveMatches(FindStringSubmatch(value), envValues, heap)

(***************************************************************************)
(* hydrateObjectValue.  Go ranges over a map in an unspecified order:      *)
(* `order` lists the keys visited first; which key comes first decides     *)
(* which error is returned when several entries fail.  A map[any]any is    *)
(* treated like a map[string]any (the catalog's YAML decodes to the        *)
(* latter).  Each result is [val, heap, err].                              *)
(***************************************************************************)
NextKey(keys, order) ==
    IF \E i \in 1..Len(order) : order[i] \in keys
    THEN order[CHOOSE i \in 1..Len(order) :
                 order[i] \in keys /\ \A j \in 1..(i - 1) : order[j] \notin keys]
    ELSE CHOOSE key \in keys : TRUE

RECURSIVE hydrateObjectValue(_, _, _, _)
RECURSIVE hydrateEntries(_, _, _, _, _)
RECURSIVE hydrateEntry(_, _, _, _, _, _)
RECURSIVE hydrateItems(_, _, _, _)
RECURSIVE hydrateItem(_, _, _, _)
RECURSIVE hydrateTail(_, _, _, _)

\* The string case returns the resolved value itself: for a $ref to a map of
\* the environment that is the environment's own map, not a copy.
hydrateResolved(r, heap) ==
    IF r.err # NoError THEN [val |-> Nil, heap |-> heap, err |-> r.err]
    ELSE IF r.operator # "" /\ r.operator # "ref"
    THEN [val |-> Nil, heap |-> heap,
          err |-> Error("only $ref() operator supported within object", "")]
    ELSE [val |-> r.val, heap |-> heap, err |-> NoError]

hydrateString(val, envValues, heap) ==
    hydrateResolved(resolveOperatorAndValue(val.v, envValues, heap), heap)

\* return result, nil: the map built by the loop is a new one.
hydratedMap(kids) ==
    IF kids.err # NoError THEN [val |-> Nil, heap |-> kids.heap, err |-> kids.err]
    ELSE [val |-> MapAt(Len(kids.heap) + 1),
          heap |-> Append(kids.heap, kids.obj), err |-> NoError]

hydratedSlice(kids) ==
    IF kids.err # NoError THEN [val |-> Nil, heap |-> kids.heap, err |-> kids.err]
    ELSE [val |-> SeqVal(kids.vals), heap |-> kids.heap, err |-> NoError]

hydrateObjectValue(value, envValues, heap, order) ==
    IF value.k = "str" THEN hydrateString(value, envValues, heap)
    ELSE IF value.k = "map"
    THEN hydratedMap(hydrateEntries(heap[value.v], DOMAIN heap[value.v], envValues,
                                    heap, order))
    ELSE IF value.k = "seq"
    THEN hydratedSlice(hydrateItems(value.v, envValues, heap, order))
    ELSE [val |-> value, heap |-> heap, err |-> NoError]

\* result[key] = hydratedValue, once the entries after it are in.
setEntry(key, kid, rest) ==
    IF rest.err # NoError THEN rest
    ELSE [obj |-> rest.obj @@ (key :> kid.val), heap |-> rest.heap, err |-> NoError]

\* One turn of the loop, kid being the hydrated subValue of key.
hydrateEntry(src, keys, key, kid, envValues, order) ==
    IF kid.err # NoError THEN [obj |-> EmptyMap, heap |-> kid.heap, err |-> kid.err]
    ELSE setEntry(key, kid,
                  hydrateEntries(src, keys \ {key}, envValues, kid.heap, order))

\* for key, subValue := range val { result[key] = hydrate(subValue) }
hydrateEntries(src, keys, envValues, heap, order) ==
    IF keys = {} THEN [obj |-> EmptyMap, heap |-> heap, err |-> NoError]
    ELSE hydrateEntry(src, keys, NextKey(keys, order),
                      hydrateObjectValue(src[NextKey(keys, order)], envValues, heap,
                                         order),
                      envValues, order)

\* Appends what a $spread resolves to as one element.
spreadOrAppendUnflattened(r, heap) ==
    IF r.err # NoError THEN [vals |-> <<>>, heap |-> heap, err |-> r.err]
    ELSE [vals |-> <<r.val>>, heap |-> heap, err |-> NoError]

\* A string item: $spread inlines the resolved sequence, anything else is
\* appended as resolved.
spreadOrAppend(r, heap) ==
    IF r.err # NoError THEN [vals |-> <<>>, heap |-> heap, err |-> r.err]
    ELSE IF r.operator = "spread"
    THEN IF r.val.k # "seq"
         THEN [vals |-> <<>>, heap |-> heap,
               err |-> Error("$spread() operator must resolve to an array", r.val.k)]
         ELSE [vals |-> r.val.v, heap |-> heap, err |-> NoError]
    ELSE [vals |-> <<r.val>>, heap |-> heap, err |-> NoError]

\* Any other item is hydrated and appended.
appendHydrated(kid) ==
    IF kid.err # NoError THEN [vals |-> <<>>, heap |-> kid.heap, err |-> kid.err]
    ELSE [vals |-> <<kid.val>>, heap |-> kid.heap, err |-> NoError]

hydrateItem(subValue, envValues, heap, order) ==
    IF subValue.k = "str"
    THEN spreadOrAppend(resolveOperatorAndValue(subValue.v, envValues, heap), heap)
    ELSE appendHydrated(hydrateObjectValue(subValue, envValues, heap, order))

appendItems(first, rest) ==
    IF rest.err # NoError THEN rest
    ELSE [vals |-> first.vals \o rest.vals, heap |-> rest.heap, err |-> NoError]

\* The items after the first, unless the first failed.
hydrateTail(first, items, envValues, order) ==
    IF first.err # NoError THEN first
    ELSE appendItems(first, hydrateItems(items, envValues, first.heap, order))

\* for _, subValue := range val
hydrateItems(items, envValues, heap, order) ==
    IF items = <<>> THEN [vals |-> <<>>, heap |-> heap, err |-> NoError]
    ELSE hydrateTail(hydrateItem(Head(items), envValues, heap, order),
                     Tail(items), envValues, order)

(***************************************************************************)
(* setInMap: walks (and creates) the maps along segments, sets the last    *)
(* key unless it exists.  Gives the heap after the call.                   *)
(***************************************************************************)
\* Takes a last key holding nil for a key that is not there.
RECURSIVE setInMapOverNil(_, _, _, _)
setInMapOverNil(heap, mapping, segments, value) ==
    IF segments = <<>> THEN heap
    ELSE LET key == Head(segments)
             present == key \in DOMAIN heap[mapping]
             submap == Len(heap) + 1
         IN IF Len(segments) = 1
            THEN IF present /\ heap[mapping][key].k # "nil" THEN heap
                 ELSE [heap EXCEPT ![mapping] =
                          [other \in DOMAIN @ \ {key} |-> @[other]] @@ (key :> value)]
            ELSE IF ~present
            THEN setInMapOverNil(
                     Append([heap EXCEPT ![mapping] = @ @@ (key :> MapAt(submap))],
                            EmptyMap),
                     submap, Tail(segments), value)
            ELSE IF heap[mapping][key].k # "map" THEN heap
            ELSE setInMapOverNil(heap, heap[mapping][key].v, Tail(segments), value)

RECURSIVE setInMap(_, _, _, _)
setInMap(heap, mapping, segments, value) ==
    IF segments = <<>> THEN heap
    ELSE LET key == Head(segments)
             present == key \in DOMAIN heap[mapping]
             submap == Len(heap) + 1
         IN IF Len(segments) = 1
            THEN IF present THEN heap
                 ELSE [heap EXCEPT ![mapping] = @ @@ (key :> value)]
            ELSE IF ~present
            THEN setInMap(Append([heap EXCEPT ![mapping] = @ @@ (key :> MapAt(submap))],
                                 EmptyMap),
                          submap, Tail(segments), value)
            ELSE IF heap[mapping][key].k # "map" THEN heap
            ELSE setInMap(heap, heap[mapping][key].v, Tail(segments), value)

(***************************************************************************)
(* splitIntoPathSegments, on the characters of the input.                  *)
(***************************************************************************)
RECURSIVE ReplaceAll(_, _, _)
ReplaceAll(chars, old, new) ==
    IF Len(chars) < Len(old) THEN chars
    ELSE IF SubSeq(chars, 1, Len(old)) = old
    THEN new \o ReplaceAll(SubSeq(chars, Len(old) + 1, Len(chars)), old, new)
    ELSE <<Head(chars)>> \o ReplaceAll(Tail(chars), old, new)

sanitize(value) ==
    ReplaceAll(ReplaceAll(value, <<"\\", ".">>, <<".">>), <<"\\", "\\">>, <<"\\">>)

RECURSIVE Join(_)
Join(chars) == IF chars = <<>> THEN "" ELSE Head(chars) \o Join(Tail(chars))

\* i and start are 1-based here: input[start:i] is SubSeq(input, start, i - 1).
RECURSIVE splitLoop(_, _, _, _, _)
splitLoop(input, i, start, escaped, result) ==
    IF i > Len(input)
    THEN Append(result, Join(sanitize(SubSeq(input, start, Len(input)))))
    ELSE IF input[i] = "\\" THEN splitLoop(input, i + 1, start, ~escaped, result)
    ELSE IF input[i] = "."
    THEN IF escaped THEN splitLoop(input, i + 1, start, escaped, result)
         ELSE splitLoop(input, i + 1, i + 1, FALSE,
                        Append(result, Join(sanitize(SubSeq(input, start, i - 1)))))
    ELSE splitLoop(input, i + 1, start, FALSE, result)

splitIntoPathSegments(input) == splitLoop(input, 1, 1, FALSE, <<>>)

(***************************************************************************)
(* HydrateValues: DSL resolution into a fresh tree, the override mappings  *)
(* (ranged over in an unspecified order: mapOrder), then templating, which *)
(* marshals the tree, executes it as a template and parses the text back   *)
(* (it can fail; the strings of this model hold no template action, so the *)
(* text parses back to the tree that was marshalled).                      *)
(***************************************************************************)
RECURSIVE applyMappings(_, _, _)
applyMappings(heap, values, mapOrder) ==
    IF mapOrder = <<>> THEN heap
    ELSE applyMappings(setInMap(heap, values, splitIntoPathSegments(Head(mapOrder).path),
                                Head(mapOrder).value),
                       values, Tail(mapOrder))

\* The template step on the mapped values: an error, or the rendered tree.
templated(h, values, mapped, templateFails) ==
    IF templateFails
    THEN [h EXCEPT !.pc = "done", !.heap = mapped, !.err = Error("template", "")]
    ELSE [h EXCEPT !.pc = "done", !.heap = mapped,
                   !.result = Snapshot(MapAt(values), mapped)]

\* The steps after hydrateObjectValues, res being its outcome.
hydrated(h, res, mapOrder, templateFails) ==
    IF res.err # NoError
    THEN [h EXCEPT !.pc = "done", !.heap = res.heap, !.err = res.err]
    ELSE templated(h, res.val.v,
                   IF /\ ~h.mappings.isNil
                      /\ h.release.Name \notin h.mappings.ReleaseIgnoreList
                   THEN applyMappings(res.heap, res.val.v, mapOrder)
                   ELSE res.heap,
                   templateFails)

HydrateValues(h, order, mapOrder, templateFails) ==
    hydrated(h, hydrateObjectValue(MapAt(h.release.Values),
                                   h.release.EnvironmentValues, h.heap, order),
             mapOrder, templateFails)

(***************************************************************************)
(* SpecHydrate: one call of HydrateValues on a release and an environment  *)
(* laid out in the heap.                                                   *)
(***************************************************************************)
Dotted(path) ==
    [i \in 1..(2 * Len(path) - 1) |-> IF i % 2 = 1 THEN path[(i + 1) \div 2] ELSE "."]

Expr(op, path) ==
    StrVal(<<"$", op, "(">> \o objectValuesSupportedPrefix \o Dotted(path) \o <<")">>)

EnvTrees ==
    { TreeMap(("x" :> TreeMap("k" :> IntVal(1)))
                @@ ("items" :> SeqVal(<<IntVal(1), IntVal(2)>>))
                @@ ("s" :> StrVal(<<"v">>))),
      TreeMap(("x" :> TreeMap("k" :> TreeMap("j" :> IntVal(1))))
                @@ ("items" :> SeqVal(<<TreeMap("k" :> IntVal(1))>>))) }

Leafs ==
    { IntVal(1), StrVal(<<"plain">>),
      Expr("ref", <<"x">>), Expr("ref", <<"items">>), Expr("ref", <<"x", "k">>),
      Expr("ref", <<"nope">>), Expr("spread", <<"items">>), Expr("spread", <<"x">>),
      Expr("env", <<"x">>),
      StrVal(<<" ", "$", "ref", "(", ".", "Release", ".", "Name", ")">>) }

ReleaseTrees ==
    {TreeMap("a" :> v) :
        v \in Leafs \cup {SeqVal(<<l>>) : l \in Leafs}
                    \cup {SeqVal(<<IntVal(0), l, IntVal(3)>>) : l \in Leafs}
                    \cup {TreeMap("b" :> l) : l \in Leafs}}
    \cup {TreeMap(("a" :> v) @@ ("c" :> w)) : v \in Leafs, w \in Leafs}

KeyOrders == {<<"a", "c">>, <<"c", "a">>}

MappingEntries ==
    {[path |-> p, value |-> StrVal(<<"override">>)] :
        p \in { <<"a", ".", "n">>, <<"a", ".", "k">>, <<"a", ".", "b", ".", "n">>,
                <<"c", "\\", ".", "d">>, <<"m", ".", "n">> }}

MaxMappings == 2

ValueMappings ==
    {[isNil |-> TRUE, ReleaseIgnoreList |-> {}, Mappings |-> {}]} \cup
    {[isNil |-> FALSE, ReleaseIgnoreList |-> ign, Mappings |-> ms] :
        ign \in {{}, {"api"}},
        ms \in {m \in SUBSET MappingEntries : Cardinality(m) <= MaxMappings}}

Orderings(S) ==
    {q \in SeqsUpTo(S, Cardinality(S)) : Len(q) = Cardinality(S) /\ Range(q) = S}

NewHydration(envTree, releaseTree, mappings) ==
    LET env == Alloc(envTree, <<>>)
        rel == Alloc(releaseTree, env.heap)
    IN [pc |-> "ready",
        heap |-> rel.heap,
        release |-> [Name |-> "api", Values |-> rel.val.v,
                     EnvironmentValues |-> env.val.v],
        mappings |-> mappings,
        before |-> [release |-> releaseTree, environment |-> envTree],
        result |-> Nil,
        err |-> NoError]

InitHydrate ==
    /\ hyd \in {NewHydration(e, r, m) :
                  e \in EnvTrees, r \in ReleaseTrees, m \in ValueMappings}
    /\ run = NewRun("none", ListOpts, "clean")
    /\ pure = Idle

CallHydrateValues ==
    /\ hyd.pc = "ready"
    /\ \E order \in KeyOrders, mapOrder \in Orderings(hyd.mappings.Mappings),
          templateFails \in BOOLEAN :
          hyd' = HydrateValues(hyd, order, mapOrder, templateFails)
    /\ UNCHANGED <<run, pure>>

NextHydrate == CallHydrateValues

SpecHydrate == InitHydrate /\ [][NextHydrate]_vars

\* C10: after any call of HydrateValues, failed or not, the release's values
\* and its environment's values are what they were before the call.
C10_HydrationLeavesInputsUnchanged ==
    hyd.pc = "done" =>
        /\ Snapshot(MapAt(hyd.release.Values), hyd.heap) = hyd.before.release
        /\ Snapshot(MapAt(hyd.release.EnvironmentValues), hyd.heap)
              = hyd.before.environment

(***************************************************************************)
(* SpecDSL: the DSL stage alone.  hydrateObjectValues is applied to a      *)
(* release's values against an environment's values, and                   *)
(* resolveOperatorAndValue to a string of the release's values.            *)
(***************************************************************************)
hydrateObjectValues(values, envValues, heap, order) ==
    hydrateObjectValue(MapAt(values), envValues, heap, order)

DslOperators == {"ref", "spread", "env"}

DslPaths ==
    { <<"x">>, <<"items">>, <<"s">>, <<"x", "k">>, <<"nope">>, <<"x", "nope">>,
      <<"s", "k">>, <<"items", "k">>, <<"x", "k", "j">> }

\* Strings the regex matches: every operator on every path, with and without
\* whitespace around and inside, and paths outside .Environment.Spec.Values.
MatchingStrings ==
    {Expr(op, p).v : op \in DslOperators, p \in DslPaths}
    \cup {<<" ">> \o Expr(op, <<"x">>).v \o <<" ", " ">> : op \in DslOperators}
    \cup {<<"$", op, "(", " ">> \o objectValuesSupportedPrefix \o <<"x", " ", ")">> :
             op \in DslOperators}
    \cup {<<"$", op, "(", ".", "Release", ".", "Name", ")">> : op \in DslOperators}
    \cup {<<"$", op, "(", ".", "Environment", ".", "Spec", ".", "Values", ")">> :
             op \in DslOperators}
    \cup {<<"$", "ref", "(", ".", "x", ")">>}

\* Strings it does not match: no operator, no leading dot, a character that
\* is no word character, text before or after, a space before the parenthesis.
OtherStrings ==
    { <<"plain">>, <<>>, <<"$", "ref">>,
      <<"$", "(", ".", "x", ")">>,
      <<"$", "ref", "(", "x", ")">>,
      <<"$", "ref", "(", ".", "x", "-", "y", ")">>,
      <<"$", "ref", "(", ".", "x", ".", ")">>,
      <<"$", "ref", " ", "(", ".", "x", ")">>,
      Expr("ref", <<"x">>).v \o <<" ", "tail">>,
      <<"pre", " ">> \o Expr("spread", <<"items">>).v,
      <<"$", "$", "ref", "(", ".", "x", ")">>,
      <<"$", "env", "(", ".", "x", ")", ")">> }

DslLeafs == {IntVal(1)} \cup {StrVal(s) : s \in MatchingStrings \cup OtherStrings}

DslTrees ==
    {TreeMap("a" :> v) :
        v \in DslLeafs \cup {SeqVal(<<l>>) : l \in DslLeafs}
                       \cup {SeqVal(<<IntVal(0), l, IntVal(3)>>) : l \in DslLeafs}
                       \cup {SeqVal(<<l, StrVal(<<"plain">>), l>>) : l \in DslLeafs}
                       \cup {SeqVal(<<SeqVal(<<l>>)>>) : l \in DslLeafs}
                       \cup {TreeMap("b" :> l) : l \in DslLeafs}}
    \cup {TreeMap(("a" :> v) @@ ("c" :> w)) : v \in Leafs, w \in Leafs}

\* Every string of a tree.
RECURSIVE Strings(_)
Strings(tree) ==
    IF tree.k = "str" THEN {tree.v}
    ELSE IF tree.k = "map" THEN UNION {Strings(tree.v[key]) : key \in DOMAIN tree.v}
    ELSE IF tree.k = "seq" THEN UNION {Strings(tree.v[i]) : i \in 1..Len(tree.v)}
    ELSE {}

NewDsl(envTree, valuesTree) ==
    LET env == Alloc(envTree, <<>>)
        rel == Alloc(valuesTree, env.heap)
    IN [fn |-> "ready", heap |-> rel.heap, values |-> rel.val.v,
        envValues |-> env.val.v, value |-> <<>>,
        before |-> [values |-> valuesTree, environment |-> envTree],
        result |-> [operator |-> "", val |-> Nil, err |-> NoError]]

InitDSL ==
    /\ \E e \in EnvTrees : \E t \in DslTrees : pure = NewDsl(e, t)
    /\ run = NewRun("none", ListOpts, "clean")
    /\ hyd = Idle

\* The outcome with the value as the tree it denotes.
DslResult(operator, r, heap) ==
    [operator |-> operator, val |-> Snapshot(r.val, heap), err |-> r.err]

CallHydrateObjectValues ==
    /\ pure.fn = "ready"
    /\ \E order \in KeyOrders :
          LET r == hydrateObjectValues(pure.values, pure.envValues, pure.heap, order)
          IN pure' = [pure EXCEPT !.fn = "hydrateObjectValues",
                                  !.heap = r.heap,
                                  !.result = DslResult("", r, r.heap)]
    /\ UNCHANGED <<run, hyd>>

CallResolveOperatorAndValue ==
    /\ pure.fn = "ready"
    /\ \E s \in Strings(pure.before.values) :
          LET r == resolveOperatorAndValue(s, pure.envValues, pure.heap)
          IN pure' = [pure EXCEPT !.fn = "resolveOperatorAndValue",
                                  !.value = s,
                                  !.result = DslResult(r.operator, r, pure.heap)]
    /\ UNCHANGED <<run, hyd>>

NextDSL ==
    \/ CallHydrateObjectValues
    \/ CallResolveOperatorAndValue

SpecDSL == InitDSL /\ [][NextDSL]_vars

(***************************************************************************)
(* Claims on the DSL stage.                                                *)
(***************************************************************************)
\* What following path from the map tree gives: the value, or the segment
\* that is absent or (when more segments follow) holds no map.
RECURSIVE Lookup(_, _)
Lookup(tree, path) ==
    IF Head(path) \notin DOMAIN tree.v
    THEN [ok |-> FALSE, at |-> Head(path), val |-> Nil]
    ELSE IF Len(path) = 1
    THEN [ok |-> TRUE, at |-> "", val |-> tree.v[Head(path)]]
    ELSE IF tree.v[Head(path)].k # "map"
    THEN [ok |-> FALSE, at |-> Head(path), val |-> Nil]
    ELSE Lookup(tree.v[Head(path)], Tail(path))

\* The tree with every string s replaced by the value v.
RECURSIVE Subst(_, _, _)
Subst(tree, s, v) ==
    IF tree.k = "str" THEN (IF tree.v = s THEN v ELSE tree)
    ELSE IF tree.k = "map"
    THEN TreeMap([key \in DOMAIN tree.v |-> Subst(tree.v[key], s, v)])
    ELSE IF tree.k = "seq"
    THEN SeqVal([i \in 1..Len(tree.v) |-> Subst(tree.v[i], s, v)])
    ELSE tree

RefString(path) == Expr("ref", path).v

\* C11: a string that is exactly $ref(.Environment.Spec.Values.p1...pn)
\* resolves to the value found by following p1..pn in the environment's
\* values, wherever the string stands in the release's values; when a segment
\* is absent, or a segment that is not the last holds no map, resolution
\* fails with an error naming that segment and there is no value.
C11_RefFollowsPath ==
    \A p \in DslPaths :
        LET found == Lookup(pure.before.environment, p)
        IN /\ (pure.fn = "resolveOperatorAndValue" /\ pure.value = RefString(p)) =>
                IF found.ok
                THEN pure.result = [operator |-> "ref", val |-> found.val,
                                    err |-> NoError]
                ELSE /\ pure.result.err # NoError
                     /\ pure.result.err.at = found.at
                     /\ pure.result.val = Nil
           /\ (/\ pure.fn = "hydrateObjectValues"
               /\ RefString(p) \in Strings(pure.before.values)
               /\ Strings(pure.before.values) \subseteq {RefString(p), <<"plain">>}) =>
                IF found.ok
                THEN /\ pure.result.err = NoError
                     /\ pure.result.val
                           = Subst(pure.before.values, RefString(p), found.val)
                ELSE /\ pure.result.err # NoError
                     /\ pure.result.err.at = found.at
                     /\ pure.result.val = Nil

\* $ref(.Environment.Spec.Values.x.k) under a.b, x.k being the map {j: 1}.
C11_Witness ==
    /\ pure.fn = "hydrateObjectValues"
    /\ pure.before.values
          = TreeMap("a" :> TreeMap("b" :> StrVal(RefString(<<"x", "k">>))))
    /\ pure.result.err = NoError
    /\ pure.result.val
          = TreeMap("a" :> TreeMap("b" :> TreeMap("j" :> IntVal(1))))

\* The strings standing as the value of a key of a map.
RECURSIVE MapStrings(_)
MapStrings(tree) ==
    IF tree.k = "map"
    THEN UNION {IF tree.v[key].k = "str" THEN {tree.v[key].v}
                ELSE MapStrings(tree.v[key]) : key \in DOMAIN tree.v}
    ELSE IF tree.k = "seq" THEN UNION {MapStrings(tree.v[i]) : i \in 1..Len(tree.v)}
    ELSE {}

\* The tree with every sequence element that is the string s replaced by
\* the elements of items, in place.
RECURSIVE Splice(_, _, _)
RECURSIVE SpliceItems(_, _, _)
Splice(tree, s, items) ==
    IF tree.k = "map"
    THEN TreeMap([key \in DOMAIN tree.v |-> Splice(tree.v[key], s, items)])
    ELSE IF tree.k = "seq" THEN SeqVal(SpliceItems(tree.v, s, items))
    ELSE tree

SpliceItems(elems, s, items) ==
    IF elems = <<>> THEN <<>>
    ELSE (IF Head(elems) = StrVal(s) THEN items ELSE <<Splice(Head(elems), s, items)>>)
         \o SpliceItems(Tail(elems), s, items)

SpreadString(path) == Expr("spread", path).v

\* C12: $spread(.Environment.Spec.Values.path) standing as an element of a
\* sequence is replaced in place by the elements of the sequence it resolves
\* to (one level, the other elements keeping their order); hydration fails
\* when it resolves to anything else, and when it stands as the value of a
\* key of a map.
C12_SpreadOnlyInSequence ==
    pure.fn = "hydrateObjectValues" =>
        \A p \in DslPaths :
            LET found == Lookup(pure.before.environment, p)
                s == SpreadString(p)
            IN /\ s \in MapStrings(pure.before.values) =>
                    pure.result.err # NoError /\ pure.result.val = Nil
               /\ (/\ s \in Strings(pure.before.values)
                   /\ s \notin MapStrings(pure.before.values)
                   /\ Strings(pure.before.values) \subseteq {s, <<"plain">>}) =>
                    IF found.ok /\ found.val.k = "seq"
                    THEN /\ pure.result.err = NoError
                         /\ pure.result.val = Splice(pure.before.values, s, found.val.v)
                    ELSE pure.result.err # NoError /\ pure.result.val = Nil

\* [0, $spread(.Environment.Spec.Values.items), 3] with items = [1, 2].
C12_Witness ==
    /\ pure.fn = "hydrateObjectValues"
    /\ pure.before.values
          = TreeMap("a" :> SeqVal(<<IntVal(0), StrVal(SpreadString(<<"items">>)),
                                    IntVal(3)>>))
    /\ pure.result.err = NoError
    /\ pure.result.val
          = TreeMap("a" :> SeqVal(<<IntVal(0), IntVal(1), IntVal(2), IntVal(3)>>))

Spaces(s, from, to) == \A k \in from..to : s[k] = " "

DottedWords(ts) ==
    /\ Len(ts) >= 2
    /\ Len(ts) % 2 = 0
    /\ \A k \in 1..Len(ts) : IF k % 2 = 1 THEN ts[k] = "." ELSE IsWord(ts[k])

\* The ways to read s as  spaces $op( spaces .seg.seg... spaces ) spaces :
\* i, j, m and n are the lengths of the four runs of spaces.
Shapes(s) ==
    UNION {UNION {UNION {
        {[op |-> s[i + 2], path |-> SubSeq(s, i + 4 + j, Len(s) - n - 1 - m)] :
            m \in {m \in 0..(Len(s) - n - i - j - 4) :
                     /\ Spaces(s, Len(s) - n - m, Len(s) - n - 1)
                     /\ DottedWords(SubSeq(s, i + 4 + j, Len(s) - n - 1 - m))}} :
            j \in {j \in 0..(Len(s) - n - i - 4) : Spaces(s, i + 4, i + 3 + j)}} :
            n \in {n \in 0..(Len(s) - i - 4) :
                     Spaces(s, Len(s) - n + 1, Len(s)) /\ s[Len(s) - n] = ")"}} :
            i \in {i \in 0..(Len(s) - 4) :
                     /\ Spaces(s, 1, i)
                     /\ s[i + 1] = "$"
                     /\ IsWord(s[i + 2])
                     /\ s[i + 3] = "("}}

UnderValues(path) ==
    /\ Len(path) > Len(objectValuesSupportedPrefix)
    /\ SubSeq(path, 1, Len(objectValuesSupportedPrefix)) = objectValuesSupportedPrefix

Rejected(s) ==
    \E shape \in Shapes(s) : shape.op \notin {"ref", "spread"} \/ ~UnderValues(shape.path)

\* C13: a string of the shape $op(.seg.seg...), spaces around allowed, whose
\* op is neither ref nor spread or whose path does not start with
\* .Environment.Spec.Values. makes the resolution fail, with no value tree;
\* a string that has not the shape is in the resolved tree as it was.
C13_BadExpressionFailsPlainPasses ==
    /\ pure.fn = "resolveOperatorAndValue" =>
          /\ Rejected(pure.value) =>
                pure.result.err # NoError /\ pure.result.val = Nil
          /\ Shapes(pure.value) = {} =>
                pure.result = [operator |-> "", val |-> StrVal(pure.value),
                               err |-> NoError]
    /\ pure.fn = "hydrateObjectValues" =>
          /\ (\E s \in Strings(pure.before.values) : Rejected(s)) =>
                pure.result.err # NoError /\ pure.result.val = Nil
          /\ (\A s \in Strings(pure.before.values) : Shapes(s) = {}) =>
                pure.result.err = NoError /\ pure.result.val = pure.before.values
          /\ pure.result.err = NoError =>
                \A s \in Strings(pure.before.values) :
                    Shapes(s) = {} => s \in Strings(pure.result.val)

\* [0, $ref(.Release.Name), 3]: a path outside .Environment.Spec.Values.
C13_Witness ==
    /\ pure.fn = "hydrateObjectValues"
    /\ pure.before.values
          = TreeMap("a" :> SeqVal(<<IntVal(0),
                                    StrVal(<<"$", "ref", "(", ".", "Release", ".",
                                             "Name", ")">>),
                                    IntVal(3)>>))
    /\ pure.result.err.msg = "only .Environment.Spec.Values. prefix is supported"
    /\ pure.result.val = Nil

(***************************************************************************)
(* SpecSetInMap: setInMap applied to a map, a path already split into      *)
(* segments and a value, then applied again with the same arguments.       *)
(***************************************************************************)
BoolVal(b) == [k |-> "bool", v |-> b]

\* false, 0, "" and nil.
FalsyValues == {BoolVal(FALSE), IntVal(0), StrVal(<<>>), Nil}

SetValues ==
    FalsyValues
    \cup {IntVal(1), SeqVal(<<>>), SeqVal(<<TreeMap("n" :> IntVal(1))>>),
          TreeMap(<<>>), TreeMap("k" :> IntVal(1))}
    \cup {TreeMap("n" :> f) : f \in FalsyValues}
    \cup {TreeMap("b" :> f) : f \in FalsyValues}
    \cup {TreeMap("b" :> TreeMap(<<>>))}
    \cup {TreeMap("b" :> TreeMap("n" :> f)) : f \in FalsyValues}

SetTrees ==
    {TreeMap(<<>>), TreeMap("m" :> IntVal(1))}
    \cup {TreeMap("a" :> v) : v \in SetValues}
    \cup {TreeMap(("a" :> v) @@ ("m" :> TreeMap("k" :> IntVal(1)))) : v \in SetValues}

NewSetInMap(tree, segments, value) ==
    LET m == Alloc(tree, <<>>)
        val == Alloc(value, m.heap)
    IN [fn |-> "ready", heap |-> val.heap, mapping |-> m.val.v,
        segments |-> segments, value |-> val.val,
        before |-> tree, new |-> value, after |-> Nil, again |-> Nil]

InitSetInMap ==
    /\ \E tree \in SetTrees :
          \E segments \in { <<"a">>, <<"a", "n">>, <<"a", "b">>, <<"a", "b", "n">>,
                             <<"m", "n">>, <<"c.d">>, <<"a", "k", "n">> } :
             \E value \in {StrVal(<<"override">>), BoolVal(FALSE),
                            TreeMap("k" :> IntVal(1))} :
                pure = NewSetInMap(tree, segments, value)
    /\ run = NewRun("none", ListOpts, "clean")
    /\ hyd = Idle

\* The map after setInMap, as the tree it denotes.
mapAfter(p, heap) == [heap |-> heap, tree |-> Snapshot(MapAt(p.mapping), heap)]

afterSetInMap(p, done) ==
    [p EXCEPT !.fn = "setInMap", !.heap = done.heap, !.after = done.tree]

CallSetInMap ==
    /\ pure.fn = "ready"
    /\ pure' = afterSetInMap(pure, mapAfter(pure, setInMap(pure.heap, pure.mapping,
                                                          pure.segments, pure.value)))
    /\ UNCHANGED <<run, hyd>>

afterSetInMapAgain(p, done) ==
    [p EXCEPT !.fn = "setInMapAgain", !.heap = done.heap, !.again = done.tree]

CallSetInMapAgain ==
    /\ pure.fn = "setInMap"
    /\ pure' = afterSetInMapAgain(pure, mapAfter(pure, setInMap(pure.heap, pure.mapping,
                                                               pure.segments, pure.value)))
    /\ UNCHANGED <<run, hyd>>

NextSetInMap ==
    \/ CallSetInMap
    \/ CallSetInMapAgain

SpecSetInMap == InitSetInMap /\ [][NextSetInMap]_vars

\* How far the segments lead in a map tree: "present" when every segment is
\* there, "absent" when one is missing under the maps before it, "blocked"
\* when a segment that is not the last is there and holds no map.
RECURSIVE PathState(_, _)
PathState(tree, segments) ==
    IF Head(segments) \notin DOMAIN tree.v THEN "absent"
    ELSE IF Len(segments) = 1 THEN "present"
    ELSE IF tree.v[Head(segments)].k # "map" THEN "blocked"
    ELSE PathState(tree.v[Head(segments)], Tail(segments))

\* The map tree with value at the end of the segments, maps made on the way.
RECURSIVE Put(_, _, _)
Put(tree, segments, value) ==
    LET key == Head(segments)
        under == IF key \in DOMAIN tree.v THEN tree.v[key] ELSE TreeMap(<<>>)
        others == [other \in DOMAIN tree.v \ {key} |-> tree.v[other]]
    IN IF Len(segments) = 1 THEN TreeMap(others @@ (key :> value))
       ELSE TreeMap(others @@ (key :> Put(under, Tail(segments), value)))

\* Every key of old is in new with what it held, maps having gained keys at most.
RECURSIVE Extends(_, _)
Extends(new, old) ==
    IF old.k = "map"
    THEN /\ new.k = "map"
         /\ DOMAIN old.v \subseteq DOMAIN new.v
         /\ \A key \in DOMAIN old.v : Extends(new.v[key], old.v[key])
    ELSE new = old

\* C14: setInMap changes and removes no key that is there, the last one or
\* one on the way, whatever it holds (false, 0, "", nil); when a segment of
\* the path is missing it makes the maps that are missing and sets the last
\* key to the value, and nothing else; a second call with the same arguments
\* changes nothing.
C14_SetInMapNeverOverwrites ==
    /\ pure.fn \in {"setInMap", "setInMapAgain"} =>
          /\ Extends(pure.after, pure.before)
          /\ PathState(pure.before, pure.segments) \in {"present", "blocked"} =>
                pure.after = pure.before
          /\ PathState(pure.before, pure.segments) = "absent" =>
                pure.after = Put(pure.before, pure.segments, pure.new)
    /\ pure.fn = "setInMapAgain" => pure.again = pure.after

\* a.n is there and holds false: it stays false.
C14_Witness ==
    /\ pure.fn = "setInMapAgain"
    /\ pure.before = TreeMap("a" :> TreeMap("n" :> BoolVal(FALSE)))
    /\ pure.segments = <<"a", "n">>
    /\ pure.new = StrVal(<<"override">>)
    /\ pure.after = pure.before

(***************************************************************************)
(* SpecSplit: splitIntoPathSegments applied to every mapping path of at    *)
(* most MaxPathLen characters among a letter, the dot and the backslash.   *)
(***************************************************************************)
MaxPathLen == 6

InitSplit ==
    /\ \E input \in SeqsUpTo({"a", ".", "\\"}, MaxPathLen) :
          pure = [fn |-> "ready", input |-> input, result |-> <<>>]
    /\ run = NewRun("none", ListOpts, "clean")
    /\ hyd = Idle

CallSplitIntoPathSegments ==
    /\ pure.fn = "ready"
    /\ pure' = [pure EXCEPT !.fn = "splitIntoPathSegments",
                            !.result = splitIntoPathSegments(pure.input)]
    /\ UNCHANGED <<run, hyd>>

NextSplit == CallSplitIntoPathSegments

SpecSplit == InitSplit /\ [][NextSplit]_vars

\* The number of backslashes that stand directly before position i.
RECURSIVE BackslashesBefore(_, _)
BackslashesBefore(input, i) ==
    IF i > 1 /\ input[i - 1] = "\\" THEN 1 + BackslashesBefore(input, i - 1) ELSE 0

\* A dot is escaped when an unpaired backslash stands directly before it.
UnescapedDot(input, i) ==
    input[i] = "." /\ BackslashesBefore(input, i) % 2 = 0

\* A segment with \. read as . and \\ as \, from left to right.
RECURSIVE Unescape(_)
Unescape(chars) ==
    IF chars = <<>> THEN ""
    ELSE IF Len(chars) >= 2 /\ chars[1] = "\\" /\ chars[2] \in {".", "\\"}
    THEN chars[2] \o Unescape(SubSeq(chars, 3, Len(chars)))
    ELSE chars[1] \o Unescape(Tail(chars))

\* The pieces of input between the unescaped dots at or after position from.
RECURSIVE SegmentsFrom(_, _)
SegmentsFrom(input, from) ==
    IF \E i \in from..Len(input) : UnescapedDot(input, i)
    THEN LET dot == CHOOSE i \in from..Len(input) :
                       /\ UnescapedDot(input, i)
                       /\ \A j \in from..(i - 1) : ~UnescapedDot(input, j)
         IN <<Unescape(SubSeq(input, from, dot - 1))>> \o SegmentsFrom(input, dot + 1)
    ELSE <<Unescape(SubSeq(input, from, Len(input)))>>

\* C15: splitIntoPathSegments splits at exactly the dots that no unpaired
\* backslash stands directly before, and reads \. as . and \\ as \ in each
\* segment: one segment more than there are unescaped dots, an unescaped dot
\* directly after an escaped one included.
C15_SplitsAtUnescapedDots ==
    pure.fn = "splitIntoPathSegments" =>
        /\ pure.result = SegmentsFrom(pure.input, 1)
        /\ Len(pure.result)
              = 1 + Cardinality({i \in 1..Len(pure.input) : UnescapedDot(pure.input, i)})

\* The prompts of the PromptProvider that wait for an answer of the user.
InteractivePrompts ==
    {"SelectSourceEnvironment", "SelectTargetEnvironment", "SelectReleases",
     "ConfirmCreatingPromotionPullRequest", "SelectCreatingPromotionPullRequest",
     "ConfirmAutoMergePullRequest"}

\* C16: with opts.NoPrompt set, no run of Promote calls an interactive
\* prompt, whatever the other options are (SourceEnv, TargetEnv or Releases
\* left unset included).
C16_NoPromptNeverPrompts ==
    (run.op = "Promote" /\ run.opts.NoPrompt) =>
        Range(run.calls) \cap InteractivePrompts = {}

(***************************************************************************)
(* SpecProject: the two revisions of the project-version Promote, which    *)
(* set spec.version of every release of a project in one environment.      *)
(* The catalog is a sequence of release files, each with its project and   *)
(* the version on disk; a revision is run as a load step, one step for     *)
(* each matching release, and the summary.                                 *)
(***************************************************************************)
MaxReleaseFiles == 3

OldVersion == "v1"

NewProjectRun(op, projects) ==
    [op |-> op, pc |-> "load", opts |-> [Project |-> "p", Version |-> "v2"], projects |-> projects,
     disk |-> [i \in 1..Len(projects) |-> OldVersion],
     tree |-> [i \in 1..Len(projects) |-> OldVersion],
     targets |-> <<>>, next |-> 1, mutated |-> <<>>, written |-> <<>>,
     printed |-> <<>>, err |-> NoErr]

InitProject ==
    /\ \E op \in {"build.Promote", "promote.Promote"} :
          \E projects \in SeqsUpTo({"p", "q"}, MaxReleaseFiles) :
             run = NewProjectRun(op, projects)
    /\ pure = Idle
    /\ hyd = Idle

ProjectFinish(r, err) == [r EXCEPT !.pc = "done", !.err = err]

\* The release files of the project, in the order they are visited.
matchingReleases(r) ==
    LET Matches(i) == r.projects[i] = r.opts.Project
    IN SelectSeq([i \in 1..Len(r.projects) |-> i], Matches)

\* filepath.Walk over the release files, or catalog.Load: every file is read
\* and parsed before any is written.
ProjectLoadStep(r, a) ==
    IF a.fail = "load" THEN ProjectFinish(r, "loading catalog")
    ELSE [r EXCEPT !.targets = matchingReleases(r), !.pc = "loop"]

\* os.WriteFile, File.WriteYaml: the file holds the content, or on an error
\* what it held or a part of the content.
WriteFile(disk, i, content, failed, partial) ==
    IF ~failed THEN [disk EXCEPT ![i] = content]
    ELSE IF partial THEN [disk EXCEPT ![i] = "<partial>"]
    ELSE disk

\* One turn of the loop: the version is set in the tree of the release, the
\* tree is written to the file; any error is returned at once.
ProjectReleaseStepContinuing(r, a) ==
    LET i == r.targets[r.next]
        set == [r EXCEPT !.tree[i] = r.opts.Version, !.mutated = Append(@, i),
                         !.next = @ + 1]
    IN IF r.next > Len(r.targets) THEN [r EXCEPT !.pc = "summary"]
       ELSE IF a.fail \in {"find", "update"} THEN [r EXCEPT !.next = @ + 1, !.err = a.fail]
       ELSE IF a.fail = "write"
       THEN [set EXCEPT !.disk = WriteFile(r.disk, i, r.opts.Version, TRUE, a.partial),
                        !.err = a.fail]
       ELSE [set EXCEPT !.disk = WriteFile(r.disk, i, r.opts.Version, FALSE, FALSE),
                        !.written = Append(@, i), !.printed = Append(@, i)]

ProjectReleaseStep(r, a) ==
    LET i == r.targets[r.next]
        set == [r EXCEPT !.tree[i] = r.opts.Version, !.mutated = Append(@, i)]
        wrote == [set EXCEPT !.disk = WriteFile(r.disk, i, r.opts.Version, FALSE, FALSE),
                             !.written = Append(@, i)]
    IN IF r.next > Len(r.targets) THEN [r EXCEPT !.pc = "summary"]
       ELSE IF a.fail = "find" /\ r.op = "promote.Promote"
       THEN ProjectFinish(r, "release has no version property")
       ELSE IF a.fail = "update" /\ r.op = "build.Promote"
       THEN ProjectFinish(r, "updating release version")
       ELSE IF a.fail = "update" /\ r.op = "promote.Promote"
       THEN ProjectFinish(set, "updating release yaml from node tree")
       ELSE IF a.fail = "marshal" /\ r.op = "build.Promote"
       THEN ProjectFinish(set, "marshalling updated release")
       ELSE IF a.fail = "write"
       THEN ProjectFinish(
                [set EXCEPT !.disk = WriteFile(r.disk, i, r.opts.Version, TRUE, a.partial)],
                "writing release file")
       ELSE IF a.fail = "name" /\ r.op = "build.Promote"
       THEN ProjectFinish(wrote, "reading release's name")
       ELSE [wrote EXCEPT !.printed = Append(@, i), !.next = @ + 1]

\* The summary: the later revision fails when no release was promoted.
ProjectSummaryStep(r, a) ==
    IF r.op = "promote.Promote" /\ Len(r.printed) = 0
    THEN ProjectFinish(r, "no releases found for project")
    ELSE ProjectFinish(r, NoErr)

ProjectAnswers(r) ==
    IF r.pc = "load" THEN {[fail |-> f, partial |-> FALSE] : f \in {"none", "load"}}
    ELSE IF r.pc = "loop" /\ r.next <= Len(r.targets)
    THEN {[fail |-> f, partial |-> FALSE] :
             f \in {"none", "update", "write"}
                   \cup (IF r.op = "build.Promote" THEN {"marshal", "name"} ELSE {"find"})}
         \cup {[fail |-> "write", partial |-> TRUE]}
    ELSE {[fail |-> "none", partial |-> FALSE]}

ProjectLoad ==
    /\ run.pc = "load"
    /\ \E a \in ProjectAnswers(run) : run' = ProjectLoadStep(run, a)
    /\ UNCHANGED <<pure, hyd>>

ProjectRelease ==
    /\ run.pc = "loop"
    /\ \E a \in ProjectAnswers(run) : run' = ProjectReleaseStep(run, a)
    /\ UNCHANGED <<pure, hyd>>

ProjectSummary ==
    /\ run.pc = "summary"
    /\ \E a \in ProjectAnswers(run) : run' = ProjectSummaryStep(run, a)
    /\ UNCHANGED <<pure, hyd>>

NextProject ==
    \/ ProjectLoad
    \/ ProjectRelease
    \/ ProjectSummary

SpecProject == InitProject /\ [][NextProject]_vars

NoRepeat(s) == \A i, j \in 1..Len(s) : i # j => s[i] # s[j]

\* The errors of updating or writing a release in the loop.
LoopErrors ==
    {"release has no version property", "updating release version",
     "updating release yaml from node tree", "marshalling updated release",
     "writing release file"}

\* C17: in both revisions of the project-version Promote, when updating or
\* writing the k-th matching release fails the run ends at once with that
\* error, the k-1 releases written before it hold the new version on disk,
\* the matching releases after it are untouched, and each matching release
\* is changed and written at most once in a run.
C17_WritesNotTransactional ==
    /\ NoRepeat(run.mutated)
    /\ NoRepeat(run.written)
    /\ run.err # NoErr => run.pc = "done"
    /\ \A i \in 1..Len(run.projects) :
          run.projects[i] # run.opts.Project =>
             run.disk[i] = OldVersion /\ run.tree[i] = OldVersion
    /\ (run.pc = "done" /\ run.err \in LoopErrors) =>
          \A j \in 1..Len(run.targets) :
             /\ j < run.next => run.disk[run.targets[j]] = run.opts.Version
             /\ j > run.next =>
                   /\ run.disk[run.targets[j]] = OldVersion
                   /\ run.tree[run.targets[j]] = OldVersion
                   /\ run.targets[j] \notin Range(run.mutated) \cup Range(run.written)

\* Three releases of the project; writing the second fails.
C17_Witness ==
    /\ run.op = "promote.Promote"
    /\ run.pc = "done"
    /\ run.err = "writing release file"
    /\ run.targets = <<1, 2, 3>>
    /\ run.next = 2
    /\ run.disk[1] = run.opts.Version
    /\ run.disk[3] = OldVersion

\* C18: whenever Promote calls perform, the parameters it passes do not have
\* both autoMerge and draft set, on every path and for every combination of
\* opts.AutoMerge and opts.Draft.
C18_NeverAutoMergeAndDraft ==
    (run.op = "Promote" /\ Called("perform")) =>
        ~(run.performParams.autoMerge /\ run.performParams.draft)

\* C19: whenever Promote calls perform with autoMerge set, the target
\* environment allows auto-merge, whether auto-merge comes from
\* opts.AutoMerge or from the answer to ConfirmAutoMergePullRequest.
C19_AutoMergeOnlyWhereAllowed ==
    (run.op = "Promote" /\ Called("perform") /\ run.performParams.autoMerge) =>
        run.opts.TargetEnv.AllowAutoMerge

\* Auto-merge was not asked for in opts: the user chose Ready and confirmed it.
C19_Witness ==
    /\ run.op = "Promote"
    /\ Called("perform")
    /\ Called("ConfirmAutoMergePullRequest")
    /\ ~run.opts.AutoMerge
    /\ run.performParams.autoMerge
    /\ run.opts.TargetEnv.AllowAutoMerge

\* C20: the lists returned by getSourceEnvironments and getTargetEnvironments
\* hold each environment at most once and only environments of the input,
\* also when a fromEnvironments names the same source twice or names an
\* environment outside the input.
C20_CandidatesOnceAndFromInput ==
    pure.fn \in {"getSourceEnvironments", "getTargetEnvironments"} =>
        /\ \A i, j \in 1..Len(pure.result.envs) :
              i # j => pure.result.envs[i] # pure.result.envs[j]
        /\ Range(pure.result.envs) \subseteq Range(pure.environments)

====
